---- MODULE Spec2Model ----
(***************************************************************************)
(* A model of Easygrader (src/utils.py, src/easygrader.py): the score      *)
(* resolver test_score, the letter mapper, GradingScheme, format_file, the *)
(* Course (construction and compute_grades) and create_import.             *)
(*                                                                         *)
(* Values.  A table cell is a tagged tuple: NaN is <<"nan">>, the number   *)
(* n/d is <<"num", n, d>>, a string is <<"str", tokens>> where tokens is   *)
(* the string cut into atoms: a word without "@", "," or whitespace, or    *)
(* one of the characters "@", "," and " ", so that str.split is computed   *)
(* and not assumed; a separator is a string too (", " is <<",", " ">>).    *)
(* Python's None is <<>> and an argument v that may be None is <<v>>.      *)
(***************************************************************************)
EXTENDS Integers, Sequences, FiniteSets, TLC

VARIABLES
    pc,          \* position of the driver: which call has been made
    printed,     \* what print() has written so far, oldest first
    results,     \* test_score: the scores of all versions of one test
    resolved,    \* test_score: what the call returned
    x,           \* letter mapper: the score given to letter_conversion
    thresholds,  \* letter mapper: the thresholds list (inverse_conversion extends it)
    letters,     \* letter mapper: the letters list
    letter,      \* letter mapper: what letter_conversion returned
    numeric,     \* letter mapper: what inverse_conversion returned
    grades,      \* GradingScheme: the values the scheme is applied to
    arg,         \* GradingScheme: the arg of GradingScheme('drop', arg)
    average,     \* GradingScheme: what the scheme returned
    file,        \* format_file: the table read from the csv file
    call,        \* format_file: the arguments of the call
    formatted,   \* format_file: what the call returned or raised
    assignments, \* Course: the Assignments it is built from
    gradebooks,  \* Course: the df of each Gradebook it is built from
    infoCol,     \* Course: the info_col argument of the constructor
    course,      \* Course: the object (roster, gradebook, grades, tests, ...)
    options,     \* compute_grades: the arguments of the last call
    report,      \* compute_grades: what the last call returned or raised
    history,     \* compute_grades: the arguments and the result of every call
    importCall,  \* create_import: the table of the input file and the arguments
    imported     \* create_import: the table written, or what the call raised

scoreVars == <<results, resolved>>
letterVars == <<x, thresholds, letters, letter, numeric>>
schemeVars == <<grades, arg, average>>
formatVars == <<file, call, formatted>>
courseVars == <<assignments, gradebooks, infoCol, course, options, report, history>>
importVars == <<importCall, imported>>

vars == <<pc, printed, scoreVars, letterVars, schemeVars, formatVars, courseVars,
          importVars>>

-----------------------------------------------------------------------------
(* Bounds of the model *)

MaxVersions == 3
MaxPoints == 2
MaxScore == 100
MaxInverseCalls == 2
MaxGrades == 3
MaxDrop == 4
MaxRows == 2
MaxStudents == 3
MaxCalls == 2

-----------------------------------------------------------------------------
(* Values *)

None == <<>>
Some(v) == <<v>>
NaN == <<"nan">>
Str(tokens) == <<"str", tokens>>

RECURSIVE GCD(_, _)
GCD(a, b) == IF b = 0 THEN a ELSE GCD(b, a % b)

Abs(n) == IF n < 0 THEN -n ELSE n

\* A number is the fraction n/d in lowest terms with d > 0, so that equal
\* numbers are equal values.
Rat(n, d) ==
    LET g == GCD(Abs(n), Abs(d))
        s == IF d < 0 THEN -1 ELSE 1
    IN <<"num", (s * n) \div g, (s * d) \div g>>

Num(n) == <<"num", n, 1>>

Add(a, b) == Rat(a[2] * b[3] + b[2] * a[3], a[3] * b[3])
Mul(a, b) == Rat(a[2] * b[2], a[3] * b[3])
Geq(a, b) == a[2] * b[3] >= b[2] * a[3]

Inf == <<"inf">>

IsNaN(c) == c[1] = "nan"
IsInf(c) == c[1] = "inf"
IsNum(c) == c[1] = "num"
IsStr(c) == c[1] = "str"

SeqsUpTo(S, n) == UNION {[1..k -> S] : k \in 0..n}

Range(s) == {s[i] : i \in DOMAIN s}

-----------------------------------------------------------------------------
(* utils.test_score *)

MultipleVersions(test_name, student_id) ==
    [msg |-> "A student has grades in multiple versions of",
     test |-> test_name, student |-> student_id]

\* The same, keeping the last graded version instead of the first.
test_score_last(test_name, results_, student_id) ==
    IF \E i \in DOMAIN results_ : IsStr(results_[i])
    THEN [exc |-> "TypeError", ret |-> NaN, out |-> <<>>]
    ELSE LET not_na == SelectSeq(results_, LAMBDA r : ~IsNaN(r)) IN
         IF not_na = <<>>
         THEN [exc |-> "", ret |-> NaN, out |-> <<>>]
         ELSE [exc |-> "", ret |-> not_na[Len(not_na)],
               out |-> IF Len(not_na) > 1
                       THEN <<MultipleVersions(test_name, student_id)>>
                       ELSE <<>>]

\* np.isnan raises TypeError on a string; otherwise the first value that is
\* not NaN, with a message when there are several.
test_score(test_name, results_, student_id) ==
    IF \E i \in DOMAIN results_ : IsStr(results_[i])
    THEN [exc |-> "TypeError", ret |-> NaN, out |-> <<>>]
    ELSE LET not_na == SelectSeq(results_, LAMBDA r : ~IsNaN(r)) IN
         IF not_na = <<>>
         THEN [exc |-> "", ret |-> NaN, out |-> <<>>]
         ELSE [exc |-> "", ret |-> not_na[1],
               out |-> IF Len(not_na) > 1
                       THEN <<MultipleVersions(test_name, student_id)>>
                       ELSE <<>>]

ScoreCells == {NaN} \cup {Num(n) : n \in 0..MaxPoints}

ScoreIdle == results = <<>> /\ resolved = None
LetterIdle ==
    /\ x = NaN
    /\ thresholds = <<>>
    /\ letters = <<>>
    /\ letter = None
    /\ numeric = None
SchemeIdle == grades = <<>> /\ arg = 0 /\ average = None
FormatIdle == file = None /\ call = None /\ formatted = None
CourseIdle ==
    /\ assignments = <<>>
    /\ gradebooks = <<>>
    /\ infoCol = None
    /\ course = None
    /\ options = None
    /\ report = None
    /\ history = <<>>
ImportIdle == importCall = None /\ imported = None

ScoreInit ==
    /\ pc = "score_start"
    /\ printed = <<>>
    /\ results \in SeqsUpTo(ScoreCells, MaxVersions)
    /\ resolved = None
    /\ LetterIdle
    /\ SchemeIdle
    /\ FormatIdle
    /\ CourseIdle
    /\ ImportIdle

CallTestScore ==
    /\ pc = "score_start"
    /\ LET r == test_score("Quiz 1", results, "s1") IN
        /\ resolved' = r
        /\ printed' = printed \o r.out
    /\ pc' = "score_done"
    /\ UNCHANGED <<results, letterVars, schemeVars, formatVars, courseVars, importVars>>

ScoreNext == CallTestScore

SpecScore == ScoreInit /\ [][ScoreNext]_vars

-----------------------------------------------------------------------------
(* C1 *)

Present(rs) == {i \in DOMAIN rs : ~IsNaN(rs[i])}

FirstPresent(rs) == CHOOSE i \in Present(rs) : \A j \in Present(rs) : i <= j

\* C1: test_score never fails; it returns NaN when every version is NaN, the
\* one graded value when one version is graded, and the first graded value in
\* version order when several are; it prints exactly in the last case.
C1_TestScore ==
    pc = "score_done" =>
        /\ resolved.exc = ""
        /\ Present(results) = {} => resolved.ret = NaN /\ printed = <<>>
        /\ Cardinality(Present(results)) = 1 =>
              /\ resolved.ret = results[FirstPresent(results)]
              /\ printed = <<>>
        /\ Cardinality(Present(results)) > 1 =>
              /\ resolved.ret = results[FirstPresent(results)]
              /\ printed = <<MultipleVersions("Quiz 1", "s1")>>

C1_Witness ==
    /\ pc = "score_done"
    /\ Len(results) = 3
    /\ results[1] = NaN
    /\ results[2] = Num(2)
    /\ results[3] = Num(1)
    /\ resolved.ret = Num(2)
    /\ Len(printed) = 1

-----------------------------------------------------------------------------
(* utils.letter_conversion, utils.inverse_conversion *)

DefaultThresholds == <<93, 90, 87, 83, 80, 75, 65, 50>>
DefaultLetters == <<"A", "A-", "B+", "B", "B-", "C+", "C", "D", "F">>

\* seq[i] as Python indexes a list: from 0, and from the end when i < 0.
PyIndex(seq, i) == IF i < 0 THEN seq[Len(seq) + i + 1] ELSE seq[i + 1]
PyInRange(seq, i) == -Len(seq) <= i /\ i < Len(seq)

\* x >= threshold for a number x; every comparison with NaN is false.
ReachesThreshold(x_, threshold) ==
    IsInf(x_) \/ (IsNum(x_) /\ Geq(x_, Num(threshold)))

\* The same scan with > in place of >=.
RECURSIVE ScanThresholdsStrict(_, _, _, _)
ScanThresholdsStrict(i, x_, thresholds_, letters_) ==
    IF i >= Len(thresholds_)
    THEN IF letters_ = <<>> THEN [exc |-> "IndexError", ret |-> ""]
         ELSE [exc |-> "", ret |-> PyIndex(letters_, -1)]
    ELSE IF ReachesThreshold(x_, PyIndex(thresholds_, i))
            /\ x_ # Num(PyIndex(thresholds_, i))
         THEN IF PyInRange(letters_, i)
              THEN [exc |-> "", ret |-> PyIndex(letters_, i)]
              ELSE [exc |-> "IndexError", ret |-> ""]
         ELSE ScanThresholdsStrict(i + 1, x_, thresholds_, letters_)

\* The for loop of letter_conversion from index i on.
RECURSIVE ScanThresholds(_, _, _, _)
ScanThresholds(i, x_, thresholds_, letters_) ==
    IF i >= Len(thresholds_)
    THEN IF letters_ = <<>> THEN [exc |-> "IndexError", ret |-> ""]
         ELSE [exc |-> "", ret |-> PyIndex(letters_, -1)]
    ELSE IF ReachesThreshold(x_, PyIndex(thresholds_, i))
         THEN IF PyInRange(letters_, i)
              THEN [exc |-> "", ret |-> PyIndex(letters_, i)]
              ELSE [exc |-> "IndexError", ret |-> ""]
         ELSE ScanThresholds(i + 1, x_, thresholds_, letters_)

letter_conversion_strict(x_, thresholds_, letters_) ==
    ScanThresholdsStrict(0, x_, thresholds_, letters_)

letter_conversion(x_, thresholds_, letters_) ==
    ScanThresholds(0, x_, thresholds_, letters_)

\* letters.index(x): the first position of x, from 0; -1 stands for ValueError.
ListIndex(seq, v) ==
    IF \E i \in DOMAIN seq : seq[i] = v
    THEN (CHOOSE i \in DOMAIN seq : seq[i] = v /\ \A j \in 1..(i - 1) : seq[j] # v) - 1
    ELSE -1

\* The same with the sentinels appended as [100, 0].
inverse_conversion_swapped(x_, thresholds_, letters_) ==
    LET extended == thresholds_ \o <<100, 0>>
        index == ListIndex(letters_, x_)
    IN IF index < 0
       THEN [exc |-> "ValueError", ret |-> 0, thresholds |-> extended]
       ELSE IF ~PyInRange(extended, index) \/ ~PyInRange(extended, index - 1)
       THEN [exc |-> "IndexError", ret |-> 0, thresholds |-> extended]
       ELSE [exc |-> "",
             ret |-> (PyIndex(extended, index) + PyIndex(extended, index - 1)) \div 2,
             thresholds |-> extended]

\* thresholds.extend([0, 100]) changes the caller's list; the result is the
\* floor of the mean of thresholds[index] and thresholds[index - 1].
inverse_conversion(x_, thresholds_, letters_) ==
    LET extended == thresholds_ \o <<0, 100>>
        index == ListIndex(letters_, x_)
    IN IF index < 0
       THEN [exc |-> "ValueError", ret |-> 0, thresholds |-> extended]
       ELSE IF ~PyInRange(extended, index) \/ ~PyInRange(extended, index - 1)
       THEN [exc |-> "IndexError", ret |-> 0, thresholds |-> extended]
       ELSE [exc |-> "",
             ret |-> (PyIndex(extended, index) + PyIndex(extended, index - 1)) \div 2,
             thresholds |-> extended]

\* The grading scales the calls are made with: the defaults of
\* compute_grades, a five-letter scale, and a scale whose thresholds are not
\* in decreasing order.
GradeScales ==
    {[thresholds |-> DefaultThresholds, letters |-> DefaultLetters],
     [thresholds |-> <<90, 80, 70, 60>>, letters |-> <<"A", "B", "C", "D", "F">>],
     [thresholds |-> <<50, 93>>, letters |-> <<"P", "H", "F">>]}

\* Scores in tenths of a point, 0.0 .. MaxScore.
Scores == {Rat(n, 10) : n \in 0..(10 * MaxScore)}

LetterInit ==
    /\ pc = "letter_start"
    /\ printed = <<>>
    /\ x \in Scores
    /\ \E scale \in GradeScales :
          thresholds = scale.thresholds /\ letters = scale.letters
    /\ letter = None
    /\ numeric = None
    /\ ScoreIdle
    /\ SchemeIdle
    /\ FormatIdle
    /\ CourseIdle
    /\ ImportIdle

CallLetterConversion ==
    /\ pc = "letter_start"
    /\ letter' = letter_conversion(x, thresholds, letters)
    /\ pc' = "letter_done"
    /\ UNCHANGED <<printed, x, thresholds, letters, numeric, scoreVars,
                   schemeVars, formatVars, courseVars, importVars>>

\* create_import calls inverse_conversion once per row with the same list.
CallInverseConversion ==
    /\ pc \in {"letter_done", "numeric_done"}
    /\ letter.exc = ""
    /\ Len(thresholds) < Len(letters) - 1 + 2 * MaxInverseCalls
    /\ LET r == inverse_conversion(letter.ret, thresholds, letters) IN
        /\ numeric' = [exc |-> r.exc, ret |-> r.ret]
        /\ thresholds' = r.thresholds
    /\ pc' = "numeric_done"
    /\ UNCHANGED <<printed, x, letters, letter, scoreVars, schemeVars,
                   formatVars, courseVars, importVars>>

LetterNext == CallLetterConversion \/ CallInverseConversion

SpecLetter == LetterInit /\ [][LetterNext]_vars

-----------------------------------------------------------------------------
(* C8, C9 *)

Hits(x_, thresholds_) ==
    {i \in DOMAIN thresholds_ : Geq(x_, Num(thresholds_[i]))}

\* C8: letter_conversion returns the letter at the first index whose threshold
\* the score reaches, and the last letter when it reaches none; with the
\* default scale a score equal to a threshold gets the higher letter
\* (93 -> A, 92.9 -> A-, 50 -> D, 49 -> F).
C8_LetterConversion ==
    pc = "letter_done" =>
        /\ letter.exc = ""
        /\ Hits(x, thresholds) = {} => letter.ret = letters[Len(letters)]
        /\ \A i \in Hits(x, thresholds) :
              (\A j \in Hits(x, thresholds) : i <= j) => letter.ret = letters[i]
        /\ letters = DefaultLetters =>
              /\ x = Num(93) => letter.ret = "A"
              /\ x = Rat(929, 10) => letter.ret = "A-"
              /\ x = Num(50) => letter.ret = "D"
              /\ x = Num(49) => letter.ret = "F"
              /\ \A i \in DOMAIN DefaultThresholds :
                    x = Num(DefaultThresholds[i]) => letter.ret = DefaultLetters[i]

C8_Witness ==
    /\ pc = "letter_done"
    /\ letters = DefaultLetters
    /\ x = Num(93)
    /\ letter.ret = "A"

\* The bracket of the letter at position i (from 1) of the default scale:
\* 100 above the first threshold, 0 below the last.
BracketHigh(i) == IF i = 1 THEN 100 ELSE DefaultThresholds[i - 1]
BracketLow(i) == IF i = Len(DefaultLetters) THEN 0 ELSE DefaultThresholds[i]

\* C9: with the default scale and an integer score x, the number
\* inverse_conversion gives for letter_conversion(x) is the integer-divided
\* midpoint of that letter's bracket, and letter_conversion maps it, against
\* the original thresholds, to the same letter.
C9_RoundTrip ==
    (pc = "numeric_done" /\ letters = DefaultLetters /\ x[3] = 1) =>
        /\ numeric.exc = ""
        /\ letter_conversion(Num(numeric.ret), DefaultThresholds, DefaultLetters)
              = letter
        /\ \A i \in DOMAIN DefaultLetters :
              DefaultLetters[i] = letter.ret =>
                  numeric.ret = (BracketHigh(i) + BracketLow(i)) \div 2

C9_Witness ==
    /\ pc = "numeric_done"
    /\ letters = DefaultLetters
    /\ x = Num(95)
    /\ letter.ret = "A"
    /\ numeric.ret = 96
    /\ Len(thresholds) = Len(DefaultThresholds) + 4

-----------------------------------------------------------------------------
(* easygrader.GradingScheme *)

RECURSIVE SumSeq(_)
SumSeq(seq) == IF seq = <<>> THEN Num(0) ELSE Add(Head(seq), SumSeq(Tail(seq)))

\* A position of a largest value of a non-empty sequence of numbers.
ArgMax(seq) == CHOOSE i \in DOMAIN seq : \A j \in DOMAIN seq : Geq(seq[i], seq[j])

RemoveAt(seq, i) == SubSeq(seq, 1, i - 1) \o SubSeq(seq, i + 1, Len(seq))

\* heapq.nlargest(n, seq): the n largest values, largest first; [] when n <= 0.
RECURSIVE nlargest(_, _)
nlargest(n, seq) ==
    IF n <= 0 \/ seq = <<>> THEN <<>>
    ELSE <<seq[ArgMax(seq)]>> \o nlargest(n - 1, RemoveAt(seq, ArgMax(seq)))

\* a / n for a number a and a Python int n; a is the int 0 when it is the sum
\* of an empty list, and 0 / 0 raises ZeroDivisionError.
Divide(a, n) ==
    IF n = 0 THEN [exc |-> "ZeroDivisionError", ret |-> NaN]
    ELSE [exc |-> "", ret |-> Rat(a[2], a[3] * n)]

\* GradingScheme.__init__: the scheme as its tag and its arg.
GradingScheme(scheme, arg_) ==
    [scheme |-> IF scheme = None \/ scheme = Some("mean") THEN "mean"
                ELSE scheme[1],
     arg |-> arg_]

\* func of GradingScheme('drop', arg).
DropFunc(arg_, grades_) ==
    LET nb_grades == Len(grades_) - arg_
    IN Divide(SumSeq(nlargest(nb_grades, grades_)), nb_grades)

\* x.mean(): the mean of the values that are not NaN, NaN when there is none.
MeanFunc(grades_) ==
    LET kept == SelectSeq(grades_, LAMBDA g : ~IsNaN(g))
    IN IF kept = <<>> THEN [exc |-> "", ret |-> NaN]
       ELSE Divide(SumSeq(kept), Len(kept))

\* sum(arg) of a list of ints
RECURSIVE SumInts(_)
SumInts(seq) == IF seq = <<>> THEN 0 ELSE Head(seq) + SumInts(Tail(seq))

\* x * arg, cell by cell
Weighted(grades_, arg_) ==
    [i \in DOMAIN grades_ |->
        IF IsNaN(grades_[i]) THEN NaN ELSE Mul(grades_[i], Num(arg_[i]))]

\* Series.sum(): the sum of the cells that are not NaN.
SumSkipNaN(cells) == SumSeq(SelectSeq(cells, LAMBDA g : ~IsNaN(g)))

\* The scheme of GradingScheme('weights', arg), arg a list of positive ints:
\* (x * arg).sum() / sum(arg); the lengths of x and arg have to agree.
WeightsFunc(arg_, grades_) ==
    IF Len(arg_) # Len(grades_) THEN [exc |-> "ValueError", ret |-> NaN]
    ELSE Divide(SumSkipNaN(Weighted(grades_, arg_)), SumInts(arg_))

\* gs.scheme(values)
ApplyScheme(gs, grades_) ==
    IF gs.scheme = "mean" THEN MeanFunc(grades_)
    ELSE IF gs.scheme = "drop" THEN DropFunc(gs.arg, grades_)
    ELSE IF gs.scheme = "weights" THEN WeightsFunc(gs.arg, grades_)
    ELSE [exc |-> "TypeError", ret |-> NaN]

SchemeInit ==
    /\ pc = "scheme_start"
    /\ printed = <<>>
    /\ grades \in SeqsUpTo({Num(n) : n \in 0..MaxPoints}, MaxGrades) \ {<<>>}
    /\ arg \in 0..MaxDrop
    /\ average = None
    /\ ScoreIdle
    /\ LetterIdle
    /\ FormatIdle
    /\ CourseIdle
    /\ ImportIdle

CallDropScheme ==
    /\ pc = "scheme_start"
    /\ average' = ApplyScheme(GradingScheme(Some("drop"), arg), grades)
    /\ pc' = "scheme_done"
    /\ UNCHANGED <<printed, grades, arg, scoreVars, letterVars, formatVars,
                   courseVars, importVars>>

SchemeNext == CallDropScheme

SpecScheme == SchemeInit /\ [][SchemeNext]_vars

-----------------------------------------------------------------------------
(* C7 *)

\* C7: GradingScheme('drop', k) applied to count values raises for every
\* k >= count and returns no number then.
C7_DropFails ==
    (pc = "scheme_done" /\ arg >= Len(grades)) => average.exc # ""

\* What the code does: it raises only for k = count.
C7_DropFailsOnlyAtCount ==
    pc = "scheme_done" =>
        /\ arg = Len(grades) <=> average.exc = "ZeroDivisionError"
        /\ arg > Len(grades) => average.ret = Num(0)
        /\ (arg = 1 /\ grades = <<Num(1), Num(2), Num(0)>>) =>
              average.ret = Rat(3, 2)

-----------------------------------------------------------------------------
(* Tables (pandas DataFrame): the row labels, the column names in order and, *)
(* for each column, its cells, one per row.                                  *)

EmptyFrame(index) ==
    [index |-> index, columns |-> <<>>, col |-> [n \in {} |-> <<>>]]

HasCol(frame, name) == name \in Range(frame.columns)

\* frame[name] = cells: a new column goes last, an old one is overwritten.
SetCol(frame, name, cells) ==
    [index |-> frame.index,
     columns |-> IF HasCol(frame, name) THEN frame.columns
                 ELSE Append(frame.columns, name),
     col |-> [n \in DOMAIN frame.col \cup {name} |->
                 IF n = name THEN cells ELSE frame.col[n]]]

\* frame[names], every name a column of the frame.
Columns(frame, names) ==
    [index |-> frame.index, columns |-> names,
     col |-> [n \in Range(names) |-> frame.col[n]]]

\* pd.concat((a, b), axis=1) of two frames with the same row labels and no
\* column of the same name.
ConcatSameIndex(a, b) ==
    [index |-> a.index, columns |-> a.columns \o b.columns,
     col |-> [n \in DOMAIN a.col \cup DOMAIN b.col |->
                 IF n \in DOMAIN a.col THEN a.col[n] ELSE b.col[n]]]

\* frame.replace(aliases, np.nan): every cell equal to an alias becomes NaN.
ReplaceValues(frame, aliases) ==
    [index |-> frame.index, columns |-> frame.columns,
     col |-> [n \in DOMAIN frame.col |->
                 [i \in DOMAIN frame.col[n] |->
                     IF frame.col[n][i] \in Range(aliases) THEN NaN
                     ELSE frame.col[n][i]]]]

\* series.isna()
IsNa(cells) == {i \in DOMAIN cells : IsNaN(cells[i])}

\* Whether the atoms of sep are the atoms of tokens from position k on.
SepAt(tokens, sep, k) ==
    /\ k + Len(sep) - 1 <= Len(tokens)
    /\ SubSeq(tokens, k, k + Len(sep) - 1) = sep

SetMin(S) == CHOOSE m \in S : \A n \in S : m <= n

\* tokens.split(sep), sep a string: the pieces between the occurrences of
\* sep, found from the left and not overlapping.
RECURSIVE Split(_, _)
Split(tokens, sep) ==
    IF \A k \in DOMAIN tokens : ~SepAt(tokens, sep, k) THEN <<tokens>>
    ELSE <<SubSeq(tokens, 1, SetMin({k \in DOMAIN tokens : SepAt(tokens, sep, k)}) - 1)>>
            \o Split(SubSeq(tokens,
                            SetMin({k \in DOMAIN tokens : SepAt(tokens, sep, k)}) + Len(sep),
                            Len(tokens)), sep)

\* tokens.split(None): the pieces between the runs of whitespace, none of
\* them empty.
RECURSIVE SplitWhitespace(_)
SplitWhitespace(tokens) ==
    IF tokens = <<>> THEN <<>>
    ELSE IF Head(tokens) = " " THEN SplitWhitespace(Tail(tokens))
    ELSE IF \A k \in DOMAIN tokens : tokens[k] # " " THEN <<tokens>>
    ELSE <<SubSeq(tokens, 1, SetMin({k \in DOMAIN tokens : tokens[k] = " "}) - 1)>>
            \o SplitWhitespace(SubSeq(tokens,
                    SetMin({k \in DOMAIN tokens : tokens[k] = " "}) + 1, Len(tokens)))

\* str.split(sep) with sep a string or None.
StrSplit(tokens, sep) ==
    IF sep = None THEN SplitWhitespace(tokens) ELSE Split(tokens, sep[1])

SetMax(S) == CHOOSE m \in S : \A n \in S : n <= m

\* series.str.split(sep, expand=True), sep a string or None: .str raises
\* AttributeError on a column without a string; a cell that is no string
\* splits into nothing.
StrSplitExpand(cells, sep) ==
    IF \A i \in DOMAIN cells : ~IsStr(cells[i])
    THEN [exc |-> "AttributeError", ncols |-> 0, parts |-> <<>>]
    ELSE LET parts == [i \in DOMAIN cells |->
                          IF IsStr(cells[i]) THEN StrSplit(cells[i][2], sep)
                          ELSE <<>>]
         IN [exc |-> "", ncols |-> SetMax({Len(parts[i]) : i \in DOMAIN parts}),
             parts |-> parts]

\* Column k (from 0) of the expanded split: NaN where the row has no piece k.
SplitCol(split, k) ==
    [i \in DOMAIN split.parts |->
        IF k < Len(split.parts[i]) THEN Str(split.parts[i][k + 1]) ELSE NaN]

\* dict.values() as a set, of a dict held as a record (input_col, of which
\* the code only asks whether a key or a value is in it).
DictValues(dict) == {dict[k] : k \in DOMAIN dict}

\* info_col is a dict whose order counts: the sequence of its <<key, value>>
\* pairs in insertion order.  Get is info_col[key], for a key it has.
Get(dict, key) == dict[CHOOSE i \in DOMAIN dict : dict[i][1] = key][2]

\* list(info_col.values()): the values in insertion order.
InfoColumns(info_col) == [i \in DOMAIN info_col |-> info_col[i][2]]

-----------------------------------------------------------------------------
(* utils.format_file *)

\* Lines 14-19 (and easygrader.py 229-234): the default info_col.
DefaultInfoCol ==
    <<<<"last", "Last Name">>, <<"first", "First Name">>, <<"id", "ID">>,
      <<"email", "Email">>>>

GSInputCol == [full |-> "Name", id |-> "SID", email |-> "Email"]
WAInputCol == [full |-> "Fullname", email |-> "Email"]

ND == Str(<<"ND">>)
NS == Str(<<"NS">>)

Raise(exc, detail, out, locals) ==
    [exc |-> exc, detail |-> detail, out |-> out, locals |-> locals,
     df |-> EmptyFrame(<<>>)]

\* The same with the arguments of the call kept when they are given.
PresetArgsExplicitFirst(file_type, input_col, last_name_first, name_separator, missing_values) ==
    IF file_type = Some("GS")
    THEN [input_col |-> IF input_col = None THEN Some(GSInputCol) ELSE input_col,
          last_name_first |-> Some(FALSE), name_separator |-> Some(<<" ">>),
          missing_values |-> missing_values]
    ELSE IF file_type = Some("WA")
    THEN [input_col |-> IF input_col = None THEN Some(WAInputCol) ELSE input_col,
          last_name_first |-> Some(TRUE), name_separator |-> Some(<<",", " ">>),
          missing_values |-> Some(<<ND, NS>>)]
    ELSE [input_col |-> input_col, last_name_first |-> last_name_first,
          name_separator |-> name_separator, missing_values |-> missing_values]

\* Lines 21-34: the arguments after the file_type branches.
PresetArgs(file_type, input_col, last_name_first, name_separator, missing_values) ==
    IF file_type = Some("GS")
    THEN [input_col |-> Some(GSInputCol),
          last_name_first |-> Some(FALSE), name_separator |-> Some(<<" ">>),
          missing_values |-> missing_values]
    ELSE IF file_type = Some("WA")
    THEN [input_col |-> Some(WAInputCol),
          last_name_first |-> Some(TRUE), name_separator |-> Some(<<",", " ">>),
          missing_values |-> Some(<<ND, NS>>)]
    ELSE [input_col |-> input_col, last_name_first |-> last_name_first,
          name_separator |-> name_separator, missing_values |-> missing_values]

\* Lines 39-43: the new frame, empty, in which the aliases are replaced.
NewFrame(file_as_df, missing_values) ==
    IF missing_values = None THEN EmptyFrame(file_as_df.index)
    ELSE ReplaceValues(EmptyFrame(file_as_df.index), missing_values[1])

MoreThanTwoNames(full_names) ==
    [msg |-> "The following students have more than 2 names", names |-> full_names]

\* Lines 45-57.
DealWithNames(df, file_as_df, input_col, info_col, last_name_first, name_separator) ==
    IF {"first", "last"} \subseteq DOMAIN input_col
    THEN IF ~HasCol(file_as_df, input_col.last) \/ ~HasCol(file_as_df, input_col.first)
         THEN [exc |-> "KeyError", df |-> df, out |-> <<>>]
         ELSE [exc |-> "",
               df |-> SetCol(SetCol(df, Get(info_col, "last"), file_as_df.col[input_col.last]),
                             Get(info_col, "first"), file_as_df.col[input_col.first]),
               out |-> <<>>]
    ELSE IF "full" \in DOMAIN input_col
    THEN IF ~HasCol(file_as_df, input_col.full)
         THEN [exc |-> "KeyError", df |-> df, out |-> <<>>]
         ELSE LET full == file_as_df.col[input_col.full]
                  names == StrSplitExpand(full, name_separator)
                  k == IF last_name_first = Some(TRUE) THEN 1 ELSE 0
              IN IF names.exc # ""
                 THEN [exc |-> names.exc, df |-> df, out |-> <<>>]
                 ELSE IF last_name_first = None
                 THEN [exc |-> "TypeError", df |-> df, out |-> <<>>]
                 ELSE IF names.ncols < 2
                 THEN [exc |-> "KeyError", df |-> df, out |-> <<>>]
                 ELSE [exc |-> "",
                       df |-> SetCol(SetCol(df, Get(info_col, "first"), SplitCol(names, k)),
                                     Get(info_col, "last"), SplitCol(names, 1 - k)),
                       out |-> IF names.ncols > 2
                               THEN <<MoreThanTwoNames(
                                        SelectSeq(full, LAMBDA c :
                                            IsStr(c) /\ Len(StrSplit(c[2],
                                                name_separator)) > 2))>>
                               ELSE <<>>]
    ELSE [exc |-> "Exception: First and last name column or a full name column must be specified.",
          df |-> df, out |-> <<>>]

\* df[id_col] with the rows in `rows` taken from `cells`.
Backfill(df, id_col, rows, cells) ==
    SetCol(df, id_col,
           [i \in DOMAIN df.col[id_col] |->
               IF i \in rows THEN cells[i] ELSE df.col[id_col][i]])

\* Lines 59-72.
DealWithID(df, file_as_df, input_col, info_col) ==
    LET id_col == Get(info_col, "id")
        has_id == "id" \in DOMAIN input_col
        has_email == "email" \in DOMAIN input_col
    IN IF (has_id /\ ~HasCol(file_as_df, input_col.id))
          \/ (has_email /\ ~HasCol(file_as_df, input_col.email))
       THEN [exc |-> "KeyError", df |-> df]
       ELSE LET df1 == IF has_id
                       THEN SetCol(df, id_col, file_as_df.col[input_col.id])
                       ELSE df
            IN IF has_email
               THEN LET df2 == SetCol(df1, Get(info_col, "email"),
                                      file_as_df.col[input_col.email])
                        local == StrSplitExpand(df2.col[Get(info_col, "email")], Some(<<"@">>))
                    IN IF local.exc # ""
                       THEN [exc |-> local.exc, df |-> df2]
                       ELSE IF has_id /\ IsNa(df2.col[id_col]) # {}
                       THEN [exc |-> "",
                             df |-> Backfill(df2, id_col, IsNa(df2.col[id_col]),
                                             SplitCol(local, 0))]
                       ELSE [exc |-> "", df |-> SetCol(df2, id_col, SplitCol(local, 0))]
               ELSE IF ~has_id
               THEN [exc |-> "Exception: An ID column or an email column must be provided.",
                     df |-> df1]
               ELSE [exc |-> "", df |-> df1]

\* df[id_col][df[id_col].duplicated()]: the IDs already met in an earlier row.
Duplicated(cells) ==
    SelectSeq([i \in DOMAIN cells |-> <<i, cells[i]>>],
              LAMBDA p : \E j \in 1..(p[1] - 1) : cells[j] = p[2])

\* The same without the check of line 80.
CheckIDsNoDuplicateCheck(df, info_col) ==
    LET ids == df.col[Get(info_col, "id")]
    IN IF IsNa(ids) # {}
       THEN [exc |-> "Exception: Some students do not have an ID nor an email",
             detail |-> IsNa(ids)]
       ELSE [exc |-> "", detail |-> {}]

\* Lines 74-81.
CheckIDs(df, info_col) ==
    LET ids == df.col[Get(info_col, "id")]
    IN IF IsNa(ids) # {}
       THEN [exc |-> "Exception: Some students do not have an ID nor an email",
             detail |-> IsNa(ids)]
       ELSE IF Duplicated(ids) # <<>>
       THEN [exc |-> "Exception: Some IDs are duplicated",
             detail |-> {p[2] : p \in Range(Duplicated(ids))}]
       ELSE [exc |-> "", detail |-> {}]

\* Lines 83-90: the other columns of the file, then the IDs as row labels.
AddOtherColumns(df, file_as_df, input_col, info_col) ==
    LET other_cols == SelectSeq(file_as_df.columns,
                                LAMBDA c : c \notin DictValues(input_col))
        all == ConcatSameIndex(df, Columns(file_as_df, other_cols))
    IN [index |-> all.col[Get(info_col, "id")], columns |-> all.columns, col |-> all.col]

format_file(file_, file_type, input_col, info_col, last_name_first, name_separator, missing_values) ==
    LET info == IF info_col = None THEN DefaultInfoCol ELSE info_col[1]
        locals == PresetArgs(file_type, input_col, last_name_first,
                             name_separator, missing_values)
        df0 == NewFrame(file_, locals.missing_values)
    IN IF locals.input_col = None
       THEN Raise("AttributeError", {}, <<>>, locals)
       ELSE LET named == DealWithNames(df0, file_, locals.input_col[1], info,
                                       locals.last_name_first, locals.name_separator)
            IN IF named.exc # ""
               THEN Raise(named.exc, {}, named.out, locals)
               ELSE LET ided == DealWithID(named.df, file_, locals.input_col[1], info)
                    IN IF ided.exc # ""
                       THEN Raise(ided.exc, {}, named.out, locals)
                       ELSE LET checked == CheckIDs(ided.df, info)
                            IN IF checked.exc # ""
                               THEN Raise(checked.exc, checked.detail, named.out, locals)
                               ELSE [exc |-> "", detail |-> {}, out |-> named.out,
                                     locals |-> locals,
                                     df |-> AddOtherColumns(ided.df, file_,
                                                locals.input_col[1], info)]

\* The csv files: every file has the columns of both presets, separate first
\* and last names and one grade column; the names are fixed by the row, the
\* second student has a middle name, and the SID, the email and the grade
\* vary.  A field is the text between two commas of the file, <<>> when it
\* is empty.
FileColumns == <<"Name", "Fullname", "First", "Last", "SID", "Email", "HW 1">>

FirstName(i) == "F" \o ToString(i)
LastName(i) == "L" \o ToString(i)

SIDFields == {<<>>, <<"s1">>, <<"k2">>}
EmailFields == {<<>>, <<"s1", "@", "x">>, <<"s2", "@", "x">>}
GradeFields == {<<"ND">>, <<"1">>}

FileRows == [sid : SIDFields, email : EmailFields, hw : GradeFields]

\* Whether read_csv parses the field as a number: one word, the digits of an
\* integer up to MaxScore.
IsNumeric(field) ==
    Len(field) = 1 /\ \E n \in 0..MaxScore : ToString(n) = field[1]

ParseNumber(field) == Num(CHOOSE n \in 0..MaxScore : ToString(n) = field[1])

\* pd.read_csv, one column: an empty field is NaN; the column is numeric when
\* every other field parses as a number, else its fields stay strings.
ReadCsvColumn(fields) ==
    IF \A i \in DOMAIN fields : fields[i] = <<>> \/ IsNumeric(fields[i])
    THEN [i \in DOMAIN fields |->
             IF fields[i] = <<>> THEN NaN ELSE ParseNumber(fields[i])]
    ELSE [i \in DOMAIN fields |->
             IF fields[i] = <<>> THEN NaN ELSE Str(fields[i])]

\* The fields of column n of the file.
FileFields(rows, n) ==
    [i \in DOMAIN rows |->
        CASE n = "Name" ->
               IF i = 2
               THEN <<FirstName(i), " ", "M", " ", LastName(i)>>
               ELSE <<FirstName(i), " ", LastName(i)>>
          [] n = "Fullname" -> <<LastName(i), ",", " ", FirstName(i)>>
          [] n = "First" -> <<FirstName(i)>>
          [] n = "Last" -> <<LastName(i)>>
          [] n = "SID" -> rows[i].sid
          [] n = "Email" -> rows[i].email
          [] n = "HW 1" -> rows[i].hw]

\* Line 37: file_as_df = pd.read_csv(file)
MakeFile(rows) ==
    [index |-> [i \in DOMAIN rows |-> Num(i - 1)],
     columns |-> FileColumns,
     col |-> [n \in Range(FileColumns) |-> ReadCsvColumn(FileFields(rows, n))]]

Files == {MakeFile(rows) : rows \in SeqsUpTo(FileRows, MaxRows) \ {<<>>}}

FileTypes == {None, Some("GS"), Some("WA")}

ExplicitInputCols ==
    {None,
     Some([first |-> "First", last |-> "Last", id |-> "SID", email |-> "Email"]),
     Some([first |-> "First", last |-> "Last", email |-> "Email"]),
     Some([full |-> "Name", id |-> "SID"]),
     Some([full |-> "Fullname", email |-> "Email"])}

\* last_name_first and name_separator: left out without a full name column,
\* else first name first with " ", or last name first with None or ", ".
NameArgs(ic) ==
    IF ic # None /\ "full" \in DOMAIN ic[1]
    THEN {<<Some(FALSE), Some(<<" ">>)>>, <<Some(TRUE), None>>,
          <<Some(TRUE), Some(<<",", " ">>)>>}
    ELSE {<<None, None>>}

FormatCalls ==
    UNION {{[file_type |-> ft, input_col |-> ic, info_col |-> None,
             last_name_first |-> na[1], name_separator |-> na[2],
             missing_values |-> mv] :
                ft \in FileTypes, na \in NameArgs(ic), mv \in {None, Some(<<ND>>)}} :
           ic \in ExplicitInputCols}

FormatInit ==
    /\ pc = "format_start"
    /\ printed = <<>>
    /\ file \in Files
    /\ call \in FormatCalls
    /\ formatted = None
    /\ ScoreIdle
    /\ LetterIdle
    /\ SchemeIdle
    /\ CourseIdle
    /\ ImportIdle

\* Gradebook(file, ...): self.df = format_file(...)
CallFormatFile ==
    /\ pc = "format_start"
    /\ LET r == format_file(file, call.file_type, call.input_col, call.info_col,
                            call.last_name_first, call.name_separator,
                            call.missing_values) IN
        /\ formatted' = r
        /\ printed' = printed \o r.out
    /\ pc' = "format_done"
    /\ UNCHANGED <<file, call, scoreVars, letterVars, schemeVars, courseVars, importVars>>

FormatNext == CallFormatFile

SpecFormat == FormatInit /\ [][FormatNext]_vars

-----------------------------------------------------------------------------
(* C4, C5, C6, C10 *)

Returned == pc = "format_done" /\ formatted.exc = ""

\* The text of an email before its first "@".
LocalPart(email) ==
    LET at == {k \in DOMAIN email[2] : email[2][k] = "@"}
    IN Str(SubSeq(email[2], 1,
                  IF at = {} THEN Len(email[2])
                  ELSE (CHOOSE k \in at : \A j \in at : k <= j) - 1))

\* C4: with an ID column in the mapping every student's ID is that column's
\* value, and only the rows without one take the email's local part; the
\* local part is the ID of every row only when the mapping has no ID column.
C4_IdResolution ==
    Returned =>
        LET input_col == formatted.locals.input_col[1]
            ids == formatted.df.col[Get(DefaultInfoCol, "id")]
        IN \A i \in DOMAIN ids :
            IF "id" \in DOMAIN input_col /\ ~IsNaN(file.col[input_col.id][i])
            THEN ids[i] = file.col[input_col.id][i]
            ELSE ids[i] = LocalPart(file.col[input_col.email][i])

\* C5: no cell of the returned table holds one of the missing-value aliases
\* of the call.
C5_AliasesReplaced ==
    (Returned /\ formatted.locals.missing_values # None) =>
        \A n \in Range(formatted.df.columns) :
            \A i \in DOMAIN formatted.df.col[n] :
                formatted.df.col[n][i]
                    \notin Range(formatted.locals.missing_values[1])

PresetOf(file_type) ==
    IF file_type = Some("GS") THEN Some(GSInputCol) ELSE Some(WAInputCol)

\* The columns of the file that the returned table passes through, the ones
\* named like an info column aside.
PassedThrough ==
    {c \in Range(FileColumns) \ Range(InfoColumns(DefaultInfoCol)) :
        HasCol(formatted.df, c)}

NotMapped(input_col) ==
    {c \in Range(FileColumns) \ Range(InfoColumns(DefaultInfoCol)) :
        c \notin DictValues(input_col)}

\* C6 as stated: with a preset and an explicit mapping, the explicit mapping
\* is the one used; the preset's only without an explicit mapping.
C6_ExplicitOverrides ==
    (pc = "format_done" /\ call.file_type # None) =>
        /\ call.input_col # None =>
              /\ formatted.locals.input_col = call.input_col
              /\ formatted.exc = "" => PassedThrough = NotMapped(call.input_col[1])
        /\ call.input_col = None =>
              formatted.locals.input_col = PresetOf(call.file_type)

\* C6, amended: with file_type 'GS' or 'WA' the preset's mapping is the one
\* used, whether or not an explicit mapping is given as well; the explicit
\* mapping is used only when file_type is neither.
C6_PresetOverrides ==
    pc = "format_done" =>
        /\ call.file_type # None =>
              /\ formatted.locals.input_col = PresetOf(call.file_type)
              /\ formatted.exc = "" =>
                    PassedThrough = NotMapped(PresetOf(call.file_type)[1])
        /\ call.file_type = None =>
              /\ formatted.locals.input_col = call.input_col
              /\ formatted.exc = "" => PassedThrough = NotMapped(call.input_col[1])

C6_Witness ==
    /\ Returned
    /\ call.file_type = Some("GS")
    /\ call.input_col = Some([full |-> "Name", id |-> "SID"])
    /\ PassedThrough = {"Fullname", "First", "Last", "HW 1"}
    /\ Len(file.index) = 2

Distinct(cells) ==
    \A i, j \in DOMAIN cells : cells[i] = cells[j] => i = j

\* C10: format_file raises or returns a table whose IDs are all there and
\* pairwise distinct; it raises when a row has neither an ID nor an email to
\* take one from, and when two rows have the same ID.
C10_UniqueIDs ==
    pc = "format_done" =>
        /\ formatted.exc = "" =>
              /\ IsNa(formatted.df.index) = {}
              /\ Distinct(formatted.df.index)
              /\ formatted.df.index = formatted.df.col[Get(DefaultInfoCol, "id")]
              /\ Len(formatted.df.index) = Len(file.index)
        /\ formatted.locals.input_col # None =>
              LET input_col == formatted.locals.input_col[1]
                  has_id == "id" \in DOMAIN input_col
                  has_email == "email" \in DOMAIN input_col
              IN /\ (\E i \in DOMAIN file.index :
                        /\ has_id => IsNaN(file.col[input_col.id][i])
                        /\ has_email => IsNaN(file.col[input_col.email][i]))
                      => formatted.exc # ""
                 /\ (has_id /\ ~has_email /\ ~Distinct(file.col[input_col.id]))
                      => formatted.exc # ""
                 /\ (has_email /\ ~has_id /\ ~Distinct(file.col[input_col.email]))
                      => formatted.exc # ""

C10_Witness ==
    /\ pc = "format_done"
    /\ formatted.exc = "Exception: Some IDs are duplicated"
    /\ formatted.detail = {Str(<<"s1">>)}
    /\ Len(file.index) = 2
    /\ file.col["SID"][1] = Str(<<"s1">>)
    /\ file.col["SID"][2] = NaN
    /\ file.col["Email"][2] = Str(<<"s1", "@", "x">>)

-----------------------------------------------------------------------------
(* easygrader.Test, easygrader.Assignment                                    *)
(* An argument that is one value or a list is <<v>> or <<"list", values>>.   *)

List(values) == <<"list", values>>
IsList(v) == Len(v) = 2

\* Test.__init__
Test(name, max_points, nb_versions, version_separator) ==
    [name |-> name, max_points |-> max_points,
     versions |-> IF nb_versions = None THEN <<name>>
                  ELSE [i \in 1..nb_versions[1] |->
                           name \o version_separator \o ToString(i)]]

\* [v] * n
Repeat(v, n) == [i \in 1..n |-> v]

\* Assignment.__init__; exc is the exception it raises, "" when none.
Assignment(name, max_points, grading_scheme, scaling, nb_tests, test_separator, nb_versions, version_separator) ==
    LET n == IF nb_tests = None THEN 1 ELSE nb_tests[1]
        points == IF IsList(max_points) THEN max_points[2]
                  ELSE Repeat(max_points[1], n)
        schemes == IF grading_scheme = None THEN <<GradingScheme(None, None)>>
                   ELSE IF IsList(grading_scheme) THEN grading_scheme[2]
                   ELSE <<grading_scheme[1]>>
        scale == IF scaling = None
                 THEN IF IsList(max_points) THEN 100 ELSE max_points[1]
                 ELSE scaling[1]
        versions == IF nb_versions # None /\ IsList(nb_versions)
                    THEN nb_versions[2]
                    ELSE Repeat(nb_versions, n)
    IN [name |-> name, nb_tests |-> n, max_points |-> points,
        grading_scheme |-> schemes, scaling |-> scale, nb_versions |-> versions,
        exc |-> IF Len(points) # n \/ Len(versions) # n
                THEN "Exception: max_points and nb_versions should be a int / float or a list of nb_tests size"
                ELSE IF nb_tests = None /\ nb_versions # None /\ IsList(nb_versions)
                THEN "TypeError"
                ELSE "",
        tests |-> IF Len(points) # n \/ Len(versions) # n THEN <<>>
                  ELSE IF nb_tests = None
                  THEN IF nb_versions # None /\ IsList(nb_versions) THEN <<>>
                       ELSE <<Test(name, points[1], nb_versions, version_separator)>>
                  ELSE [i \in 1..n |->
                           Test(name \o test_separator \o ToString(i), points[i],
                                versions[i], version_separator)]]

-----------------------------------------------------------------------------
(* Merging tables *)

\* The position of a row label in an index without duplicates, 0 when absent.
Loc(index, label) ==
    IF \E i \in DOMAIN index : index[i] = label
    THEN CHOOSE i \in DOMAIN index : index[i] = label
    ELSE 0

\* The labels of b that a has not, in b's order, after those of a.
UnionIndex(a, b) == a \o SelectSeq(b, LAMBDA l : Loc(a, l) = 0)

\* frame.reindex(index): the rows of the frame in the order of index, a row
\* of NaN for a label the frame has not.
Reindex(frame, index) ==
    [index |-> index, columns |-> frame.columns,
     col |-> [n \in DOMAIN frame.col |->
                 [i \in DOMAIN index |->
                     IF Loc(frame.index, index[i]) = 0 THEN NaN
                     ELSE frame.col[n][Loc(frame.index, index[i])]]]]

\* The same keeping the rows as they are.
ReindexToRosterOmitted(frame, roster) == frame

\* .reindex(self.roster.index) of lines 249 and 368
ReindexToRoster(frame, roster) == Reindex(frame, roster.index)

\* Two frames side by side on the rows of index.
ConcatOn(a, b, index) == ConcatSameIndex(Reindex(a, index), Reindex(b, index))

ConcatTwo(a, b) == ConcatOn(a, b, UnionIndex(a.index, b.index))

\* pd.concat(frames, axis=1): the union of the row labels, every frame's
\* columns side by side (no two frames with a column of the same name).
RECURSIVE Concat(_)
Concat(frames) ==
    IF Len(frames) = 1 THEN frames[1]
    ELSE ConcatTwo(Concat(SubSeq(frames, 1, Len(frames) - 1)), frames[Len(frames)])

\* frame.loc[:, ~frame.columns.isin(names)]
DropColumns(frame, names) ==
    Columns(frame, SelectSeq(frame.columns, LAMBDA c : c \notin Range(names)))

-----------------------------------------------------------------------------
(* easygrader.Course.__init__ *)

MissingGrades(i, difference) ==
    [msg |-> "The following students are missing grades in gradebook",
     gradebook |-> i, students |-> difference]

\* Lines 242-245: one message per later gradebook that lacks roster students.
RECURSIVE MissingMessages(_, _, _)
MissingMessages(roster, gradebooks_, i) ==
    IF i >= Len(gradebooks_) - 1 THEN <<>>
    ELSE LET difference == Range(roster.index) \ Range(PyIndex(gradebooks_, i + 1).index)
         IN (IF difference # {} THEN <<MissingGrades(i + 1, difference)>> ELSE <<>>)
                \o MissingMessages(roster, gradebooks_, i + 1)

\* x[test.versions] for the row i of the gradebook
VersionCells(gradebook, test, i) ==
    [v \in DOMAIN test.versions |-> gradebook.col[test.versions[v]][i]]

\* The score r of a row before those of the rows after it; an exception ends
\* the rows.
RowThen(r, rest) ==
    IF r.exc # "" THEN [exc |-> r.exc, out |-> r.out, cells |-> <<>>]
    ELSE [exc |-> rest.exc, out |-> r.out \o rest.out,
          cells |-> <<r.ret>> \o rest.cells]

\* gradebook.apply(lambda x: test_score(...), axis=1) from row i on.
RECURSIVE ResolveRows(_, _, _, _)
ResolveRows(gradebook, test, id_col, i) ==
    IF i > Len(gradebook.index) THEN [exc |-> "", out |-> <<>>, cells |-> <<>>]
    ELSE IF \E v \in DOMAIN test.versions : ~HasCol(gradebook, test.versions[v])
    THEN [exc |-> "KeyError", out |-> <<>>, cells |-> <<>>]
    ELSE RowThen(test_score(test.name, VersionCells(gradebook, test, i),
                            gradebook.col[id_col][i]),
                 ResolveRows(gradebook, test, id_col, i + 1))

\* What the tests after a test print, after what the test printed.
OutThen(out, rest) ==
    [exc |-> rest.exc, out |-> out \o rest.out, grades |-> rest.grades]

\* Lines 258-259: the grades table with one column per test from test k on.
RECURSIVE ResolveTests(_, _, _, _, _)

\* The column r of test k, then the tests after it.
TestThen(grades_, gradebook, tests, id_col, k, r) ==
    IF r.exc # "" THEN [exc |-> r.exc, out |-> r.out, grades |-> grades_]
    ELSE OutThen(r.out, ResolveTests(SetCol(grades_, tests[k].name, r.cells),
                                     gradebook, tests, id_col, k + 1))

ResolveTests(grades_, gradebook, tests, id_col, k) ==
    IF k > Len(tests) THEN [exc |-> "", out |-> <<>>, grades |-> grades_]
    ELSE TestThen(grades_, gradebook, tests, id_col, k,
                  ResolveRows(gradebook, tests[k], id_col, 1))

RECURSIVE Flatten(_)
Flatten(seqs) == IF seqs = <<>> THEN <<>> ELSE Head(seqs) \o Flatten(Tail(seqs))


\* No Course: __init__ raised.
NoCourse(info, assignments_) ==
    [info_col |-> info, assignments |-> assignments_, tests |-> <<>>,
     roster |-> EmptyFrame(<<>>), gradebook |-> EmptyFrame(<<>>),
     grades |-> EmptyFrame(<<>>)]

\* Lines 247-249: self.gradebook
MergedGradebook(roster, gradebooks_) ==
    ReindexToRoster(
        Concat(<<roster>> \o [g \in DOMAIN gradebooks_ |->
                                 DropColumns(gradebooks_[g], roster.columns)]),
        roster)

\* Lines 254-259, r the grades table and what resolving the tests printed.
CourseResolved(assignments_, info, roster, out, gradebook, tests, r) ==
    [exc |-> r.exc, out |-> out \o r.out,
     self |-> IF r.exc # "" THEN NoCourse(info, assignments_)
              ELSE [info_col |-> info, assignments |-> assignments_,
                    tests |-> tests, roster |-> roster,
                    gradebook |-> gradebook, grades |-> r.grades]]

\* Lines 249-259
CourseMerged(assignments_, info, roster, out, gradebook, tests) ==
    CourseResolved(assignments_, info, roster, out, gradebook, tests,
                   ResolveTests(roster, gradebook, tests, Get(info, "id"), 1))

\* Lines 240-259
CourseOf(assignments_, gradebooks_, info, roster) ==
    CourseMerged(assignments_, info, roster,
                 MissingMessages(roster, gradebooks_, 0),
                 MergedGradebook(roster, gradebooks_),
                 Flatten([a \in DOMAIN assignments_ |-> assignments_[a].tests]))

\* Lines 237-259
CourseWith(assignments_, gradebooks_, info) ==
    IF \E c \in Range(InfoColumns(info)) : ~HasCol(gradebooks_[1], c)
    THEN [exc |-> "KeyError", out |-> <<>>, self |-> NoCourse(info, assignments_)]
    ELSE CourseOf(assignments_, gradebooks_, info,
                  Columns(gradebooks_[1], InfoColumns(info)))

\* Course.__init__ with a list of Assignments and a list of Gradebook.df.
CourseInit(assignments_, gradebooks_, info_col) ==
    CourseWith(assignments_, gradebooks_,
               IF info_col = None THEN DefaultInfoCol ELSE info_col[1])

-----------------------------------------------------------------------------
(* easygrader.Course.compute_grades *)

\* a / b on floats: no exception, x / 0 is inf and 0 / 0 is NaN (the values
\* here are never negative).
DivCell(a, b) ==
    IF IsNaN(a) \/ IsNaN(b) THEN NaN
    ELSE IF IsInf(b) THEN IF IsInf(a) THEN NaN ELSE Num(0)
    ELSE IF IsInf(a) THEN Inf
    ELSE IF b[2] = 0 THEN IF a[2] = 0 THEN NaN ELSE Inf
    ELSE Rat(a[2] * b[3], a[3] * b[2])

MulCell(a, b) ==
    IF IsNaN(a) \/ IsNaN(b) THEN NaN
    ELSE IF IsInf(a) THEN IF IsNum(b) /\ b[2] = 0 THEN NaN ELSE Inf
    ELSE IF IsInf(b) THEN IF a[2] = 0 THEN NaN ELSE Inf
    ELSE Mul(a, b)

\* a > b on floats; every comparison with NaN is false.
GreaterCell(a, b) ==
    IF IsNaN(a) \/ IsNaN(b) THEN FALSE
    ELSE IF IsInf(a) THEN ~IsInf(b)
    ELSE IF IsInf(b) THEN FALSE
    ELSE ~Geq(b, a)

\* max(values): the first value, replaced by each later one greater than it.
RECURSIVE MaxFrom(_, _)
MaxFrom(best, values) ==
    IF values = <<>> THEN best
    ELSE MaxFrom(IF GreaterCell(Head(values), best) THEN Head(values) ELSE best,
                 Tail(values))

\* max over the results rs of the schemes; the first exception when one raised.
MaxOfResults(rs) ==
    IF \E g \in DOMAIN rs : rs[g].exc # ""
    THEN [exc |-> rs[CHOOSE g \in DOMAIN rs :
                       rs[g].exc # "" /\ \A h \in 1..(g - 1) : rs[h].exc = ""].exc,
          ret |-> NaN]
    ELSE [exc |-> "", ret |-> MaxFrom(rs[1].ret, Tail([g \in DOMAIN rs |-> rs[g].ret]))]

\* max(gs.scheme(values) for gs in schemes)
MaxOfSchemes(schemes, values) ==
    MaxOfResults([g \in DOMAIN schemes |-> ApplyScheme(schemes[g], values)])

\* best * factor, best the max over the schemes.
Scaled(best, factor) == [exc |-> best.exc, ret |-> MulCell(best.ret, Num(factor))]

IncludeOptions == <<"tests", "averages", "final", "letter", "missed">>

\* A frame with the given columns, col[n][i] the cell of column n in row i.
FrameOf(index, names, col) == [index |-> index, columns |-> names, col |-> col]

AssignmentNamed(self, name) ==
    self.assignments[CHOOSE a \in DOMAIN self.assignments :
                        self.assignments[a].name = name]

MissedName(assignment) == assignment.name \o " missed"

\* Lines 324-327
MissedFrame(self) ==
    LET by == [a \in DOMAIN self.assignments |-> MissedName(self.assignments[a])]
        count(n, i) ==
            LET a == self.assignments[CHOOSE k \in DOMAIN by : by[k] = n]
            IN Num(Cardinality({t \in DOMAIN a.tests :
                                   IsNaN(self.grades.col[a.tests[t].name][i])}))
    IN FrameOf(self.roster.index, by,
               [n \in Range(by) |->
                   [i \in DOMAIN self.roster.index |-> count(n, i)]])

\* Lines 331-332: every NaN of the copy becomes 0.
ReplaceNaN(frame) ==
    [index |-> frame.index, columns |-> frame.columns,
     col |-> [n \in DOMAIN frame.col |->
                 [i \in DOMAIN frame.col[n] |->
                     IF IsNaN(frame.col[n][i]) THEN Num(0) ELSE frame.col[n][i]]]]

\* x[test_names] / assignment.max_points for the row i
Normalized(assignment, grades_, i) ==
    [t \in DOMAIN assignment.tests |->
        DivCell(grades_.col[assignment.tests[t].name][i],
                Num(assignment.max_points[t]))]

\* Lines 346-348 for one assignment and one row: the scaled average.
AverageOf(assignment, grades_, i) ==
    Scaled(MaxOfSchemes(assignment.grading_scheme, Normalized(assignment, grades_, i)),
           assignment.scaling)

AssignmentNames(self) == [a \in DOMAIN self.assignments |-> self.assignments[a].name]

\* Lines 343-349: dfs['averages'].
AveragesFrame(self, grades_) ==
    LET avg(n, i) == AverageOf(AssignmentNamed(self, n), grades_, i).ret
    IN FrameOf(self.roster.index, AssignmentNames(self),
               [n \in Range(AssignmentNames(self)) |->
                   [i \in DOMAIN self.roster.index |-> avg(n, i)]])

\* The exception of the first of the failing (assignment, row), "" when none.
FirstAverageExc(self, grades_, failing) ==
    IF failing = {} THEN ""
    ELSE LET f == CHOOSE p \in failing : \A q \in failing :
                      p[1] < q[1] \/ (p[1] = q[1] /\ p[2] <= q[2])
         IN AverageOf(self.assignments[f[1]], grades_, f[2]).exc

\* The first exception of the row-by-row averages, "" when none.
AveragesExc(self, grades_) ==
    FirstAverageExc(self, grades_,
        {p \in (DOMAIN self.assignments) \X (DOMAIN self.roster.index) :
            AverageOf(self.assignments[p[1]], grades_, p[2]).exc # ""})

\* Line 349: unscaled_averages.
UnscaledFrame(self, averages) ==
    LET unscaled(n, i) == DivCell(averages.col[n][i],
                                  Num(AssignmentNamed(self, n).scaling))
    IN FrameOf(self.roster.index, AssignmentNames(self),
               [n \in Range(AssignmentNames(self)) |->
                   [i \in DOMAIN self.roster.index |-> unscaled(n, i)]])

\* Line 354 for one row
FinalOf(self, unscaled, schemes, i) ==
    Scaled(MaxOfSchemes(schemes,
                        [a \in DOMAIN self.assignments |->
                            unscaled.col[self.assignments[a].name][i]]),
           100)

FinalFrame(self, unscaled, schemes) ==
    LET final(n, i) == FinalOf(self, unscaled, schemes, i).ret
    IN FrameOf(self.roster.index, <<"Final grade">>,
               [n \in Range(<<"Final grade">>) |->
                   [i \in DOMAIN self.roster.index |-> final(n, i)]])

\* The exception of the first of the failing rows, "" when none.
FirstFinalExc(self, unscaled, schemes, failing) ==
    IF failing = {} THEN ""
    ELSE FinalOf(self, unscaled, schemes,
                 CHOOSE i \in failing : \A j \in failing : i <= j).exc

FinalExc(self, unscaled, schemes) ==
    FirstFinalExc(self, unscaled, schemes,
        {i \in DOMAIN self.roster.index :
            FinalOf(self, unscaled, schemes, i).exc # ""})

\* Line 359
LetterFrame(self, final, thresholds_, letters_) ==
    LET lett(n, i) ==
            Str(<<letter_conversion(final.col["Final grade"][i], thresholds_, letters_).ret>>)
    IN FrameOf(self.roster.index, <<"Letter grade">>,
               [n \in Range(<<"Letter grade">>) |->
                   [i \in DOMAIN self.roster.index |-> lett(n, i)]])

LetterExc(self, final, thresholds_, letters_) ==
    IF \E i \in DOMAIN self.roster.index :
          letter_conversion(final.col["Final grade"][i], thresholds_, letters_).exc # ""
    THEN "IndexError" ELSE ""

ThresholdWarnings(thresholds_, letters_) ==
    (IF \E i \in 1..(Len(thresholds_) - 1) : thresholds_[i] < thresholds_[i + 1]
     THEN <<[msg |-> "Thresholds not sorted"]>> ELSE <<>>)
    \o (IF Len(thresholds_) # Len(letters_) - 1
        THEN <<[msg |-> "Incorrect sizes of threshold and letters."]>> ELSE <<>>)

\* Line 319: dfs, and the exception raised while filling it ("" when none).
Dfs(self) ==
    [tests |-> EmptyFrame(self.roster.index),
     averages |-> EmptyFrame(self.roster.index),
     final |-> EmptyFrame(self.roster.index),
     letter |-> EmptyFrame(self.roster.index),
     missed |-> EmptyFrame(self.roster.index),
     others |-> EmptyFrame(self.roster.index),
     exc |-> ""]

\* Lines 323-327
FillMissed(self, include, dfs) ==
    IF "missed" \in include THEN [dfs EXCEPT !.missed = MissedFrame(self)] ELSE dfs

\* Lines 336-338
FillTests(self, include, dfs) ==
    IF "tests" \in include
    THEN [dfs EXCEPT !.tests = Columns(self.grades,
                                       [t \in DOMAIN self.tests |-> self.tests[t].name])]
    ELSE dfs

\* Lines 342-349, grades_ the copy of lines 331-332.
FillAverages(self, grades_, include, dfs) ==
    IF dfs.exc = "" /\ include \cap {"averages", "final", "letter"} # {}
    THEN [dfs EXCEPT !.averages = AveragesFrame(self, grades_),
                     !.exc = AveragesExc(self, grades_)]
    ELSE dfs

\* Lines 353-354
FillFinal(self, schemes, include, dfs) ==
    IF dfs.exc = "" /\ include \cap {"final", "letter"} # {}
    THEN [dfs EXCEPT !.final = FinalFrame(self, UnscaledFrame(self, dfs.averages), schemes),
                     !.exc = FinalExc(self, UnscaledFrame(self, dfs.averages), schemes)]
    ELSE dfs

\* Lines 358-359
FillLetter(self, thresholds_, letters_, include, dfs) ==
    IF dfs.exc = "" /\ "letter" \in include
    THEN [dfs EXCEPT !.letter = LetterFrame(self, dfs.final, thresholds_, letters_),
                     !.exc = LetterExc(self, dfs.final, thresholds_, letters_)]
    ELSE dfs

\* Lines 362-364, other_col_to_include the names that are no include option.
FillOthersFrom(self, other_col_to_include, dfs) ==
    IF \E c \in Range(other_col_to_include) : ~HasCol(self.gradebook, c)
    THEN [dfs EXCEPT !.exc = "KeyError"]
    ELSE [dfs EXCEPT !.others = Columns(self.gradebook, other_col_to_include)]

FillOthers(self, include_others, dfs) ==
    IF dfs.exc = "" /\ include_others # None
    THEN FillOthersFrom(self,
             SelectSeq(include_others[1], LAMBDA c : c \notin Range(IncludeOptions)),
             dfs)
    ELSE dfs

\* Lines 368-370; self is the Course as the call leaves it.
ConcatDfs(self, out, dfs) ==
    IF dfs.exc # ""
    THEN [exc |-> dfs.exc, out |-> out, df |-> EmptyFrame(<<>>), self |-> self]
    ELSE [exc |-> "", out |-> out,
          df |-> ReindexToRoster(
                     Concat(<<self.roster, dfs.tests, dfs.averages, dfs.final,
                              dfs.letter, dfs.missed, dfs.others>>),
                     self.roster),
          self |-> self]

\* The same replacing the NaN in self.grades itself.
ReplaceGradesInPlace(self) ==
    [self |-> [self EXCEPT !.grades = ReplaceNaN(self.grades)],
     grades |-> ReplaceNaN(self.grades)]

\* Lines 331-332: grades is a copy of self.grades, and the NaN are replaced
\* in the copy.  The Course after the two lines, and the local grades.
CopyGrades(self) == [self |-> self, grades |-> ReplaceNaN(self.grades)]

\* Lines 336-370, copied the Course and the grades that lines 331-332 leave,
\* dfs as lines 319-327 leave it.
ComputeAfterCopy(copied, out, schemes, thresholds_, letters_, include, include_others, dfs) ==
    ConcatDfs(copied.self, out,
        FillOthers(copied.self, include_others,
            FillLetter(copied.self, thresholds_, letters_, include,
                FillFinal(copied.self, schemes, include,
                    FillAverages(copied.self, copied.grades, include,
                        FillTests(copied.self, include, dfs))))))

\* Lines 304-370 with the defaults of lines 291-315 filled in.
ComputeWith(self, schemes, thresholds_, letters_, include, include_others) ==
    ComputeAfterCopy(CopyGrades(self), ThresholdWarnings(thresholds_, letters_),
                     schemes, thresholds_, letters_, include, include_others,
                     FillMissed(self, include, Dfs(self)))

compute_grades(self, grading_scheme, thresholds_, letters_, include, include_others) ==
    ComputeWith(self,
        IF grading_scheme = None THEN <<GradingScheme(None, None)>>
        ELSE IF IsList(grading_scheme) THEN grading_scheme[2]
        ELSE <<grading_scheme[1]>>,
        IF thresholds_ = None THEN DefaultThresholds ELSE thresholds_[1],
        IF letters_ = None THEN DefaultLetters ELSE letters_[1],
        IF include = None THEN {"averages", "missed", "final", "letter"}
        ELSE include[1],
        include_others)

-----------------------------------------------------------------------------
(* The courses: a reference gradebook 'GS' with the test 'HW 1' and a        *)
(* 'Comments' column, a gradebook 'WA' with the two versions of 'Quiz 1',    *)
(* and a gradebook 'Rec' with every student.  A student's cells are fixed by *)
(* the student: the second has no 'HW 1' and both versions of the quiz, the  *)
(* third neither version.                                                    *)

StudentID(k) == Str(<<"s" \o ToString(k)>>)

InfoCell(n, k) ==
    CASE n = "Last Name" -> Str(<<LastName(k)>>)
      [] n = "First Name" -> Str(<<FirstName(k)>>)
      [] n = "ID" -> StudentID(k)
      [] n = "Email" -> Str(<<"s" \o ToString(k), "@", "x">>)

GradeCell(n, k) ==
    CASE n = "HW 1" -> IF k = 2 THEN NaN ELSE Num((k + 1) % (MaxPoints + 1))
      [] n = "Comments" -> IF k = 1 THEN Str(<<"late">>) ELSE NaN
      [] n = "Quiz 1 - v1" -> IF k = 3 THEN NaN ELSE Num(1)
      [] n = "Quiz 1 - v2" -> IF k = 2 THEN Num(2) ELSE NaN
      [] n = "Participation" -> Num(1)

\* The df of a Gradebook with the students `students` (their numbers, in row
\* order) and the grade columns `columns`.
GradebookDf(students, columns) ==
    [index |-> [i \in DOMAIN students |-> StudentID(students[i])],
     columns |-> InfoColumns(DefaultInfoCol) \o columns,
     col |-> [n \in Range(InfoColumns(DefaultInfoCol)) \cup Range(columns) |->
                 [i \in DOMAIN students |->
                     IF n \in Range(columns) THEN GradeCell(n, students[i])
                     ELSE InfoCell(n, students[i])]]]

\* The rosters: the students of a non-empty subset, in any order.
RowOrders ==
    {o \in SeqsUpTo(1..MaxStudents, MaxStudents) \ {<<>>} :
        \A i, j \in DOMAIN o : o[i] = o[j] => i = j}

\* The students of a later gradebook: a non-empty subset, last student first.
Descending == {o \in RowOrders : \A i, j \in DOMAIN o : i < j => o[i] > o[j]}

GS(students) == GradebookDf(students, <<"HW 1", "Comments">>)
WA(students) == GradebookDf(students, <<"Quiz 1 - v1", "Quiz 1 - v2">>)
Rec == GradebookDf([k \in 1..MaxStudents |-> k], <<"Participation">>)

\* A gradebook with the first version of 'Quiz 1' only.
V1(students) == GradebookDf(students, <<"Quiz 1 - v1">>)

GradebookLists ==
    {<<GS(r)>> : r \in RowOrders}
    \cup {<<GS(r), WA(w)>> : r \in RowOrders, w \in Descending}
    \cup {<<GS(r), Rec, WA(w)>> : r \in RowOrders, w \in Descending}
    \cup {<<GS(r), V1(w)>> : r \in RowOrders, w \in Descending}

HW == Assignment("HW", Some(MaxPoints), None, None, Some(1), " ", None, " - v")
Quiz == Assignment("Quiz", Some(MaxPoints), None, Some(10), Some(1), " ", Some(2), " - v")

AssignmentLists == {<<HW>>, <<HW, Quiz>>}

\* The info_col of Course(...): left out, or the same four columns with the
\* ID first.
InfoCols ==
    {None,
     Some(<<<<"id", "ID">>, <<"last", "Last Name">>, <<"first", "First Name">>,
            <<"email", "Email">>>>)}

CourseInputs(lists) ==
    /\ pc = "course_start"
    /\ printed = <<>>
    /\ assignments \in AssignmentLists
    /\ gradebooks \in lists
    /\ infoCol \in InfoCols
    /\ course = None
    /\ options = None
    /\ report = None
    /\ history = <<>>
    /\ ScoreIdle
    /\ LetterIdle
    /\ SchemeIdle
    /\ FormatIdle
    /\ ImportIdle

CourseSpecInit == CourseInputs(GradebookLists)

\* The courses that are graded: every student on the roster, in order.
GradedLists ==
    {<<GS([k \in 1..MaxStudents |-> k]), WA(w)>> : w \in Descending}

GradesInit == CourseInputs(GradedLists)

\* course = Course(assignments, gradebooks)
NewCourse ==
    /\ pc = "course_start"
    /\ \E r \in {CourseInit(assignments, gradebooks, infoCol)} :
        /\ course' = [exc |-> r.exc, self |-> r.self]
        /\ printed' = printed \o r.out
        /\ pc' = IF r.exc = "" THEN "course_built" ELSE "course_failed"
    /\ UNCHANGED <<assignments, gradebooks, infoCol, options, report, history, scoreVars,
                   letterVars, schemeVars, formatVars, importVars>>

ComputeOptions ==
    {[grading_scheme |-> None, thresholds |-> None, letters |-> None,
      include |-> inc, include_others |-> oth] :
        inc \in {None} \cup {Some(S) : S \in SUBSET Range(IncludeOptions)},
        oth \in {None, Some(<<"Comments">>)}}

\* course.compute_grades(...) with any of the given options, on a course on
\* which it was called less than `calls` times.
ComputeGradesCall(choices, calls) ==
    /\ pc \in {"course_built", "graded"}
    /\ Len(history) < calls
    /\ \E o \in choices :
        \E r \in {compute_grades(course.self, o.grading_scheme, o.thresholds,
                                 o.letters, o.include, o.include_others)} :
        /\ options' = o
        /\ report' = [exc |-> r.exc, out |-> r.out, df |-> r.df]
        /\ history' = Append(history, [options |-> o, exc |-> r.exc, df |-> r.df])
        /\ course' = [course EXCEPT !.self = r.self]
        /\ printed' = printed \o r.out
    /\ pc' = "graded"
    /\ UNCHANGED <<assignments, gradebooks, infoCol, scoreVars, letterVars, schemeVars,
                   formatVars, importVars>>

\* One call on the course just built.
CallComputeGrades == ComputeGradesCall(ComputeOptions, 1)

\* The options of the calls that are made one after the other.
RegradeOptions ==
    {[grading_scheme |-> None, thresholds |-> None, letters |-> None,
      include |-> o[1], include_others |-> o[2]] :
        o \in {<<None, None>>, <<Some({"tests"}), None>>,
               <<Some({"letter"}), Some(<<"Comments">>)>>,
               <<Some({"averages", "missed"}), None>>}}

\* Up to MaxCalls calls on the same course.
Regrade == ComputeGradesCall(RegradeOptions, MaxCalls)

\* The construction of a course from any of the gradebook lists.
SpecCourse == CourseSpecInit /\ [][NewCourse]_vars

GradesNext == NewCourse \/ CallComputeGrades

\* The construction and the grading of a course.
SpecGrades == GradesInit /\ [][GradesNext]_vars

RegradeNext == NewCourse \/ Regrade

\* The construction of a course and calls of compute_grades one after the other.
SpecRegrade == GradesInit /\ [][RegradeNext]_vars

-----------------------------------------------------------------------------
(* Properties of Course.__init__ and Course.compute_grades *)

Built == pc \in {"course_built", "graded"}

\* The columns that a gradebook brings to the merged gradebook.
OwnColumns(gradebook) ==
    {n \in Range(gradebook.columns) : n \notin Range(InfoColumns(DefaultInfoCol))}

\* What was printed about missing grades, in the order of printing.
MissingPrinted ==
    SelectSeq(printed,
              LAMBDA m : m.msg = "The following students are missing grades in gradebook")

\* For each gradebook after the first, its position counted from the second
\* (1 for the second) and the roster's students that it has not.
MissingExpected ==
    SelectSeq([g \in 1..(Len(gradebooks) - 1) |->
                  [msg |-> "The following students are missing grades in gradebook",
                   gradebook |-> g,
                   students |-> Range(gradebooks[1].index) \ Range(gradebooks[g + 1].index)]],
              LAMBDA m : m.students # {})

\* C2: the construction of a course never changes the student set.  The rows
\* of the merged gradebook and of the grades table are the student IDs of the
\* reference gradebook in its order, so that a student only in a later
\* gradebook is never added; a roster student has, in the columns of a later
\* gradebook, the cells of that gradebook, and NaN in all of them when the
\* gradebook has not the student; and the diagnostics about missing grades
\* are, for each later gradebook that lacks roster students, exactly the set
\* of those students with the gradebook's index (1 for the second gradebook).
C2_StudentSet ==
    /\ Built =>
        /\ course.self.gradebook.index = gradebooks[1].index
        /\ course.self.grades.index = gradebooks[1].index
        /\ course.self.roster.index = gradebooks[1].index
        /\ \A g \in 2..Len(gradebooks) : \A n \in OwnColumns(gradebooks[g]) :
              \A i \in DOMAIN gradebooks[1].index :
                 LET k == Loc(gradebooks[g].index, gradebooks[1].index[i])
                 IN course.self.gradebook.col[n][i] =
                        IF k = 0 THEN NaN ELSE gradebooks[g].col[n][k]
    /\ pc # "course_start" => MissingPrinted = MissingExpected

\* A course built from a reference gradebook with the students 3 and 1 and a
\* third gradebook with the students 2 and 1: the rows stay 3 and 1, student
\* 3 has no quiz grade, and student 3 is reported missing in gradebook 2.
C2_Witness ==
    /\ pc = "course_built"
    /\ Len(gradebooks) = 3
    /\ gradebooks[1].index = <<StudentID(3), StudentID(1)>>
    /\ gradebooks[3].index = <<StudentID(2), StudentID(1)>>
    /\ course.self.gradebook.index = <<StudentID(3), StudentID(1)>>
    /\ course.self.gradebook.col["Quiz 1 - v1"] = <<NaN, Num(1)>>
    /\ MissingPrinted = <<MissingGrades(2, {StudentID(3)})>>

\* The columns of each section of the table of compute_grades.
SectionColumns(self, section) ==
    CASE section = "tests" -> {self.tests[t].name : t \in DOMAIN self.tests}
      [] section = "averages" -> {self.assignments[a].name : a \in DOMAIN self.assignments}
      [] section = "final" -> {"Final grade"}
      [] section = "letter" -> {"Letter grade"}
      [] section = "missed" ->
            {self.assignments[a].name \o " missed" : a \in DOMAIN self.assignments}

Graded == pc = "graded" /\ report.exc = "" /\ options.include # None

\* C3: compute_grades returns exactly the requested sections.  For every
\* subset include of tests, averages, final, letter and missed, the columns
\* of a section are in the returned table if and only if the section is in
\* include.
C3_ExactSections ==
    Graded =>
        \A section \in Range(IncludeOptions) :
            \A c \in SectionColumns(course.self, section) :
                c \in Range(report.df.columns) <=> section \in options.include[1]

\* The half of it that the code keeps: no requested section is left out, and
\* a section that was not requested is there only when it is the averages
\* with the final or letter grade requested, or the final grade with the
\* letter grade requested.
C3_SectionsAndTheirInputs ==
    Graded =>
        \A section \in Range(IncludeOptions) :
            \A c \in SectionColumns(course.self, section) :
                c \in Range(report.df.columns) <=>
                    \/ section \in options.include[1]
                    \/ section = "averages" /\ options.include[1] \cap {"final", "letter"} # {}
                    \/ section = "final" /\ "letter" \in options.include[1]

\* C11: compute_grades never mutates the Course.  After any sequence of calls
\* with any options, the roster, the merged gradebook, the grades table (its
\* NaN still NaN, not 0), the assignments and the tests of the Course are
\* what the construction made them, and two calls with equal options return
\* equal tables.
C11_CourseUnchanged ==
    Built =>
        /\ course.self = CourseInit(assignments, gradebooks, infoCol).self
        /\ \A i, j \in DOMAIN history :
              history[i].options = history[j].options =>
                  /\ history[i].exc = history[j].exc
                  /\ history[i].df = history[j].df

\* Two calls that return the individual tests, on a course whose grades table
\* has a NaN: the second table has the NaN as well.
C11_Witness ==
    /\ pc = "graded"
    /\ Len(history) = 2
    /\ history[1].options.include = Some({"tests"})
    /\ history[2].options.include = Some({"tests"})
    /\ history[2].exc = ""
    /\ \E i \in DOMAIN course.self.grades.index :
          /\ IsNaN(course.self.grades.col["HW 1"][i])
          /\ IsNaN(history[2].df.col["HW 1"][i])

-----------------------------------------------------------------------------
(* easygrader.create_import.  df is the table that pd.read_csv makes of the  *)
(* input file; no table here has a column named 'info_col_names'.            *)

\* Lines 380-389: info_col, and thresholds, whose default is set only where
\* the default of info_col is.
ImportDefaults(info_col, thresholds_) ==
    [info_col |-> IF info_col = None
                  THEN <<<<"last", "Last Name">>, <<"first", "First Name">>,
                         <<"email", "Email">>, <<"id", "ID">>>>
                  ELSE info_col[1],
     thresholds |-> IF info_col = None /\ thresholds_ = None
                    THEN Some(DefaultThresholds) ELSE thresholds_]

\* Lines 402-406: the columns of output.
ImportColumns(info, include_others) ==
    <<"Username", Get(info, "last"), Get(info, "first"), Get(info, "email")>>
    \o [c \in DOMAIN include_others |-> include_others[c] \o " Points Grade"]
    \o <<"Adjusted Final Grade Numerator", "Adjusted Final Grade Denominator",
         "End-Of-Line Indicator">>

\* '#' + x[info_col['id']]
Username(id) == Str(<<"#">> \o id[2])

\* Line 408: output, every cell NaN.
NewOutput(df, columns) ==
    FrameOf(df.index, columns,
            [n \in Range(columns) |-> [i \in DOMAIN df.index |-> NaN]])

\* Lines 408-411: the Username column of output is filled (KeyError without
\* the id column, TypeError for an id that is no str), then line 411 reads
\* the attribute info_col_names of df, which df has not.  out is the local
\* output when the call raises.
FillImport(df, info, columns) ==
    IF ~HasCol(df, Get(info, "id"))
    THEN [exc |-> "KeyError", columns |-> columns, out |-> NewOutput(df, columns)]
    ELSE IF \E i \in DOMAIN df.index : ~IsStr(df.col[Get(info, "id")][i])
    THEN [exc |-> "TypeError", columns |-> columns, out |-> NewOutput(df, columns)]
    ELSE [exc |-> "AttributeError: 'DataFrame' object has no attribute 'info_col_names'",
          columns |-> columns,
          out |-> SetCol(NewOutput(df, columns), "Username",
                         [i \in DOMAIN df.index |-> Username(df.col[Get(info, "id")][i])])]

\* create_import up to the line that raises; nothing is written to
\* output_path (line 420 is not reached).
create_import(df, info_col, letter_grade_col, standardize, thresholds_, letters_, include_others) ==
    FillImport(df, ImportDefaults(info_col, thresholds_).info_col,
               ImportColumns(ImportDefaults(info_col, thresholds_).info_col,
                             IF include_others = None THEN <<>> ELSE include_others[1]))

\* The input files: the report of some students, each with a letter grade and
\* a 'Comments' cell.
ImportLetters == {"A", "C+", "F"}

ImportDf(students, letter_) ==
    [index |-> [i \in DOMAIN students |-> i - 1],
     columns |-> InfoColumns(DefaultInfoCol) \o <<"Letter grade", "Comments">>,
     col |-> [n \in Range(InfoColumns(DefaultInfoCol)) \cup {"Letter grade", "Comments"} |->
                 [i \in DOMAIN students |->
                     IF n = "Letter grade" THEN Str(<<letter_>>)
                     ELSE IF n = "Comments" THEN GradeCell(n, students[i])
                     ELSE InfoCell(n, students[i])]]]

ImportCalls ==
    {[df |-> ImportDf(r, l), info_col |-> ic, letter_grade_col |-> "Letter grade",
      standardize |-> st, thresholds |-> th, letters |-> None,
      include_others |-> oth] :
        r \in Descending, l \in ImportLetters,
        ic \in {None, Some(DefaultInfoCol)}, st \in BOOLEAN,
        th \in {None, Some(DefaultThresholds)},
        oth \in {None, Some(<<"Comments">>)}}

ImportInit ==
    /\ pc = "import_start"
    /\ printed = <<>>
    /\ importCall \in ImportCalls
    /\ imported = None
    /\ ScoreIdle
    /\ LetterIdle
    /\ SchemeIdle
    /\ FormatIdle
    /\ CourseIdle

\* create_import(input_path, output_path, ...)
CallCreateImport ==
    /\ pc = "import_start"
    /\ imported' = create_import(importCall.df, importCall.info_col,
                                 importCall.letter_grade_col, importCall.standardize,
                                 importCall.thresholds, importCall.letters,
                                 importCall.include_others)
    /\ pc' = "import_done"
    /\ UNCHANGED <<printed, importCall, scoreVars, letterVars, schemeVars,
                   formatVars, courseVars>>

SpecImport == ImportInit /\ [][CallCreateImport]_vars

\* The row of the reimport table for the row i of the input.
ImportRow(c, i) ==
    [Username |-> Username(c.df.col["ID"][i]),
     last |-> c.df.col["Last Name"][i],
     first |-> c.df.col["First Name"][i],
     email |-> c.df.col["Email"][i],
     numerator |-> IF c.standardize
                   THEN inverse_conversion(c.df.col[c.letter_grade_col][i][2][1],
                                           DefaultThresholds, DefaultLetters).ret
                   ELSE c.df.col[c.letter_grade_col][i],
     denominator |-> 100,
     eol |-> "#"]

\* C12: create_import produces the reimport table.  For every input report
\* the call completes, and the table written has one row per student, with
\* the Username '#' followed by the ID, the last name, first name and email
\* of the input, one '<name> Points Grade' column per passthrough item, the
\* numerator (the inverse_conversion of the letter when standardize is true,
\* with the default thresholds when none is supplied), the denominator 100
\* and the end-of-line indicator '#'.
C12_ImportTable ==
    pc = "import_done" =>
        /\ imported.exc = ""
        /\ imported.out.index = importCall.df.index
        /\ imported.out.columns = imported.columns
        /\ \A i \in DOMAIN importCall.df.index :
              LET row == ImportRow(importCall, i) IN
              /\ imported.out.col["Username"][i] = row.Username
              /\ imported.out.col["Last Name"][i] = row.last
              /\ imported.out.col["First Name"][i] = row.first
              /\ imported.out.col["Email"][i] = row.email
              /\ imported.out.col["Adjusted Final Grade Numerator"][i] = row.numerator
              /\ imported.out.col["Adjusted Final Grade Denominator"][i] = Num(row.denominator)
              /\ imported.out.col["End-Of-Line Indicator"][i] = Str(<<row.eol>>)
              /\ \A o \in Range(IF importCall.include_others = None THEN <<>>
                               ELSE importCall.include_others[1]) :
                    imported.out.col[o \o " Points Grade"][i] = importCall.df.col[o][i]

\* What the code does instead: every call on a report with the ID column
\* raises at line 411, the Username column filled and no other.
C12_ImportRaises ==
    pc = "import_done" =>
        /\ imported.exc = "AttributeError: 'DataFrame' object has no attribute 'info_col_names'"
        /\ \A n \in Range(imported.columns) \ {"Username"} :
              \A i \in DOMAIN importCall.df.index : IsNaN(imported.out.col[n][i])

-----------------------------------------------------------------------------
(* The final grade: courses whose Assignments are built with a scaling, and  *)
(* calls of compute_grades with course-level GradingSchemes.                 *)

Scalings == {0, 1, 10}

ScaledLists ==
    {<<Assignment("HW", Some(MaxPoints), None, Some(s), Some(1), " ", None, " - v"),
       Assignment("Quiz", Some(MaxPoints), None, Some(t), Some(1), " ", Some(2), " - v")>> :
        s, t \in Scalings}

FinalInit ==
    /\ pc = "course_start"
    /\ printed = <<>>
    /\ assignments \in ScaledLists
    /\ gradebooks \in GradedLists
    /\ infoCol \in InfoCols
    /\ course = None
    /\ options = None
    /\ report = None
    /\ history = <<>>
    /\ ScoreIdle
    /\ LetterIdle
    /\ SchemeIdle
    /\ FormatIdle
    /\ ImportIdle

FinalOptions ==
    {[grading_scheme |-> gs, thresholds |-> None, letters |-> None,
      include |-> inc, include_others |-> None] :
        gs \in {None, Some(GradingScheme(Some("weights"), <<1, 3>>)),
                List(<<GradingScheme(None, None),
                       GradingScheme(Some("weights"), <<3, 1>>)>>)},
        inc \in {Some({"final"}), Some({"averages", "final"})}}

\* course.compute_grades(grading_scheme, include=[... 'final'])
CallFinalGrade == ComputeGradesCall(FinalOptions, 1)

FinalNext == NewCourse \/ CallFinalGrade

SpecFinal == FinalInit /\ [][FinalNext]_vars

\* The GradingSchemes supplied to the last call.
SuppliedSchemes ==
    IF options.grading_scheme = None THEN <<GradingScheme(None, None)>>
    ELSE IF IsList(options.grading_scheme) THEN options.grading_scheme[2]
    ELSE <<options.grading_scheme[1]>>

\* The average of an assignment for the row i, in the 0..1 range: the maximum
\* over its schemes of the scheme applied to score / max_points (0 for NaN).
UnitAverage(assignment, i) ==
    MaxOfSchemes(assignment.grading_scheme,
                 [t \in DOMAIN assignment.tests |->
                     IF IsNaN(course.self.grades.col[assignment.tests[t].name][i])
                     THEN Num(0)
                     ELSE DivCell(course.self.grades.col[assignment.tests[t].name][i],
                                  Num(assignment.max_points[t]))]).ret

\* 100 times the maximum over the supplied schemes of the scheme applied to
\* the averages in the 0..1 range.
FinalGrade(i) ==
    MulCell(MaxOfSchemes(SuppliedSchemes,
                         [a \in DOMAIN assignments |-> UnitAverage(assignments[a], i)]).ret,
            Num(100))

FinalGraded == pc = "graded" /\ report.exc = "" /\ "final" \in options.include[1]

\* C13: the final grade of compute_grades.  For every student 'Final grade'
\* is 100 times the maximum, over the supplied course-level GradingSchemes,
\* of the scheme applied to the student's per-assignment averages in the 0..1
\* range, whatever the scaling of the Assignments: the scaling changes the
\* displayed average only.
C13_FinalGrade ==
    FinalGraded =>
        \A i \in DOMAIN report.df.index :
            report.df.col["Final grade"][i] = FinalGrade(i)

\* The same for the Assignments whose scaling is not 0: with a scaling of 0
\* the average divided by the scaling is NaN, and the schemes skip it.
C13_FinalGradeNonZeroScaling ==
    (FinalGraded /\ \A a \in DOMAIN assignments : assignments[a].scaling # 0) =>
        \A i \in DOMAIN report.df.index :
            report.df.col["Final grade"][i] = FinalGrade(i)

-----------------------------------------------------------------------------
(* Tests whose version columns are in no gradebook *)

\* The tests of the Assignments the course is built from.
GivenTests == Flatten([a \in DOMAIN assignments |-> assignments[a].tests])

\* The columns of all the gradebooks.
GivenColumns == UNION {Range(gradebooks[g].columns) : g \in DOMAIN gradebooks}

\* The version columns of a test that some gradebook has.
ExistingVersions(test) == SelectSeq(test.versions, LAMBDA v : v \in GivenColumns)

Constructed == pc \in {"course_built", "course_failed", "graded"}

\* C14: the construction of a course resolves every Test of every Assignment
\* even when some version columns of the test are in no gradebook.  The
\* construction completes, and the score of the test is resolved from the
\* version columns that exist, NaN when none exists.
C14_AbsentColumnsResolved ==
    Constructed =>
        /\ course.exc = ""
        /\ \A t \in DOMAIN GivenTests : \A i \in DOMAIN gradebooks[1].index :
              course.self.grades.col[GivenTests[t].name][i] =
                  test_score(GivenTests[t].name,
                             [v \in DOMAIN ExistingVersions(GivenTests[t]) |->
                                 course.self.gradebook.col[ExistingVersions(GivenTests[t])[v]][i]],
                             gradebooks[1].index[i]).ret

\* What the code does instead: the construction raises KeyError exactly when
\* a version column of a test is in no gradebook, and resolves every test
\* otherwise.
C14_AbsentColumnRaises ==
    Constructed =>
        IF \E t \in DOMAIN GivenTests :
              ExistingVersions(GivenTests[t]) # GivenTests[t].versions
        THEN course.exc = "KeyError"
        ELSE /\ course.exc = ""
             /\ \A t \in DOMAIN GivenTests : \A i \in DOMAIN gradebooks[1].index :
                   course.self.grades.col[GivenTests[t].name][i] =
                       test_score(GivenTests[t].name,
                                  [v \in DOMAIN GivenTests[t].versions |->
                                      course.self.gradebook.col[GivenTests[t].versions[v]][i]],
                                  gradebooks[1].index[i]).ret

====
